---------------------------- MODULE Spec2Model ----------------------------
(***************************************************************************)
(* A model of the heir binary session codec:                               *)
(*   - the frame codec HeirBin::write_to_file / HeirBin::read_from_file    *)
(*     (src/heir/src/formats/heir_bin.rs),                                 *)
(*   - the bit-packed scalar types Action (src/heir/src/types/action.rs),  *)
(*     Version (types/version.rs), Card (types/card.rs) and Board          *)
(*     (types/board.rs).                                                   *)
(*                                                                         *)
(* Integers wider than 16 bits are kept as sequences of 16-bit limbs, most *)
(* significant limb first (a u32 is <<hi, lo>>, a u64 is four limbs), so   *)
(* that every 32-bit and 64-bit value of the program is representable and  *)
(* the little-endian conversions are real conversions.                     *)
(***************************************************************************)
EXTENDS Integers, Sequences, FiniteSets, TLC

VARIABLES
    pc,        \* position of the frame-codec scenario
    session,   \* the in-memory HeirBin value handed to write_to_file
    failAt,    \* which write_all call the writer rejects (0: none)
    wres,      \* what write_to_file returned, with the bytes the writer took
    input,     \* the byte stream handed to read_from_file
    how,       \* how input was derived from the written bytes
    result,    \* what read_from_file returned
    sc_in,     \* scalar codecs: the arguments of the call
    sc_out,    \* scalar codecs: what the call returned
    brd        \* the Board object the board scenario mutates

vars == <<pc, session, failAt, wres, input, how, result, sc_in, sc_out, brd>>

---------------------------------------------------------------------------
(* Bounds of the explored inputs. *)

MaxTables == 2
MaxPlayers == 2
MaxEvents == 2
MaxHole == 2
MaxActions == 2
MaxLoc == 2
MaxTail == 2

---------------------------------------------------------------------------
(* Fixed-width integers. *)

Byte == 0..255

Limb == 256 * 256

\* A small unsigned value as a u32 / u64.
U32(n) == <<n \div Limb, n % Limb>>

U64(hi, lo) == <<0, 0>> \o <<hi, lo>>

Min(a, b) == IF a < b THEN a ELSE b

\* A cast of a length to u8 that saturates at 255.
as_u8_saturating(n) == IF n > 255 THEN 255 ELSE n

\* `n as u8`: the narrowing cast of a length.
as_u8(n) == n % 256

\* `n as u32` of a length (lengths in the model stay far below 2^31).
as_u32(n) == <<(n \div Limb) % Limb, n % Limb>>

\* uN::to_le_bytes: least significant byte first.
to_le_bytes(x) ==
    [j \in 1..(2 * Len(x)) |->
        LET limb == x[Len(x) - ((j - 1) \div 2)]
        IN  IF j % 2 = 1 THEN limb % 256 ELSE limb \div 256]

\* The bytes taken most significant first.
from_be_bytes(bs) ==
    [i \in 1..(Len(bs) \div 2) |-> 256 * bs[2 * i - 1] + bs[2 * i]]

\* uN::from_le_bytes.
from_le_bytes(bs) ==
    [i \in 1..(Len(bs) \div 2) |->
        LET k == Len(bs) \div 2 - i
        IN  bs[2 * k + 1] + 256 * bs[2 * k + 2]]

\* i < n for a small index i and a u32 n: the `for _ in 0..n` loop test.
LessU32(i, n) == n[1] > 0 \/ i < n[2]

RECURSIVE Cat(_)
\* The concatenation of a sequence of sequences (by halves, to keep the
\* evaluation shallow on long sequences).
Cat(ss) ==
    IF Len(ss) = 0 THEN <<>>
    ELSE IF Len(ss) = 1 THEN ss[1]
    ELSE LET h == Len(ss) \div 2
         IN  Cat(SubSeq(ss, 1, h)) \o Cat(SubSeq(ss, h + 1, Len(ss)))

---------------------------------------------------------------------------
(* The wire constants. *)

MAGIC_NUMBER == <<72, 69, 73, 82>>

VERSION == 0

---------------------------------------------------------------------------
(* HeirBin::write_to_file.  The encoder is the sequence of its write_all   *)
(* calls; each call is kept with the name of the field it writes.          *)

Chunk(f, bytes) == [f |-> f, b |-> bytes]

\* A Player written stack first.
player_writes_stack_first(p) ==
    << Chunk("stack", to_le_bytes(p.stack)),
       Chunk("player_id", to_le_bytes(p.id)) >>

player_writes(p) ==
    << Chunk("player_id", to_le_bytes(p.id)),
       Chunk("stack", to_le_bytes(p.stack)) >>

action_writes(a) ==
    << Chunk("player_and_action", <<a.player_and_action>>),
       Chunk("bet_amount", to_le_bytes(a.bet_amount)) >>

hand_writes(h) ==
    << Chunk("tag", <<0>>),
       Chunk("hand_id", to_le_bytes(h.id)),
       Chunk("button", <<h.button_position>>),
       Chunk("num_hole", <<as_u8(Len(h.hole_cards))>>) >>
    \o [i \in 1..Len(h.hole_cards) |-> Chunk("hole", h.hole_cards[i])]
    \o << Chunk("num_actions", <<as_u8(Len(h.actions))>>) >>
    \o Cat([i \in 1..Len(h.actions) |-> action_writes(h.actions[i])])
    \o << Chunk("timestamp", to_le_bytes(h.timestamp)),
          Chunk("board", to_le_bytes(h.board)) >>

stack_update_writes(u) ==
    << Chunk("tag", <<1>>),
       Chunk("seat", <<u.seat>>),
       Chunk("stack", to_le_bytes(u.stack)) >>

\* A SeatUpdate encoder that writes an absent player as a present player
\* of id 0 and stack 0.
seat_update_writes_default(u) ==
    << Chunk("tag", <<2>>),
       Chunk("seat", <<u.seat>>),
       Chunk("present", <<1>>),
       Chunk("player_id", to_le_bytes(IF u.player # <<>> THEN u.player[1].id ELSE U32(0))),
       Chunk("stack", to_le_bytes(IF u.player # <<>> THEN u.player[1].stack ELSE U32(0))) >>

seat_update_writes(u) ==
    << Chunk("tag", <<2>>),
       Chunk("seat", <<u.seat>>) >>
    \o IF u.player # <<>>
       THEN << Chunk("present", <<1>>),
               Chunk("player_id", to_le_bytes(u.player[1].id)),
               Chunk("stack", to_le_bytes(u.player[1].stack)) >>
       ELSE << Chunk("present", <<0>>) >>

event_writes(e) ==
    CASE e.type = "Hand" -> hand_writes(e)
      [] e.type = "StackUpdate" -> stack_update_writes(e)
      [] e.type = "SeatUpdate" -> seat_update_writes(e)

table_writes(t) ==
    << Chunk("table_id", to_le_bytes(t.id)),
       Chunk("location", t.location),
       Chunk("nul", <<0>>),
       Chunk("table_size", <<t.table_size>>),
       Chunk("num_players", <<as_u8(Len(t.initial_context))>>) >>
    \o Cat([i \in 1..Len(t.initial_context) |-> player_writes(t.initial_context[i])])
    \o << Chunk("num_events", to_le_bytes(as_u32(Len(t.events)))) >>
    \o Cat([i \in 1..Len(t.events) |-> event_writes(t.events[i])])

\* The write_all calls of write_to_file, in order.
writes(s) ==
    << Chunk("magic", MAGIC_NUMBER),
       Chunk("version", <<VERSION>>),
       Chunk("session_id", to_le_bytes(s.session_id)),
       Chunk("num_tables", <<as_u8(Len(s.tables))>>) >>
    \o Cat([i \in 1..Len(s.tables) |-> table_writes(s.tables[i])])

\* The bytes of a sequence of write_all calls.
bytes_of(ws) == Cat([i \in 1..Len(ws) |-> ws[i].b])

\* The field each written byte belongs to.
layout_of(ws) == Cat([i \in 1..Len(ws) |-> [j \in 1..Len(ws[i].b) |-> ws[i].f]])

\* Whether every vector of the session fits the count field written for it:
\* 1 byte for tables, initial players, hole-card pairs and actions (the 4-byte
\* event count cannot be exceeded by a sequence of the model).
CountsFit(s) ==
    /\ Len(s.tables) < 256
    /\ \A i \in 1..Len(s.tables) :
          /\ Len(s.tables[i].initial_context) < 256
          /\ \A j \in 1..Len(s.tables[i].events) :
                LET e == s.tables[i].events[j]
                IN  e.type = "Hand" =>
                       Len(e.hole_cards) < 256 /\ Len(e.actions) < 256

\* An encoder that goes on with the writes that follow the rejected one.
emit_skip(ws, k) ==
    IF k = 0 \/ k > Len(ws)
    THEN [ok |-> TRUE, kind |-> "Ok", calls |-> Len(ws), bytes |-> bytes_of(ws)]
    ELSE [ok |-> FALSE, kind |-> "WriteError", calls |-> Len(ws),
          bytes |-> bytes_of(SubSeq(ws, 1, k - 1)) \o bytes_of(SubSeq(ws, k + 1, Len(ws)))]

\* A writer that takes the write_all calls ws and rejects the k-th (k = 0, or
\* k beyond the last call: it accepts every write).
emit(ws, k) ==
    IF k = 0 \/ k > Len(ws)
    THEN [ok |-> TRUE, kind |-> "Ok", calls |-> Len(ws), bytes |-> bytes_of(ws)]
    ELSE [ok |-> FALSE, kind |-> "WriteError", calls |-> k,
          bytes |-> bytes_of(SubSeq(ws, 1, k - 1))]

\* An encoder that refuses a vector longer than its count field.
write_to_file_checked(s, k) ==
    IF ~CountsFit(s)
    THEN [ok |-> FALSE, kind |-> "InvalidInput", calls |-> 0, bytes |-> <<>>]
    ELSE emit(writes(s), k)

\* write_to_file: every `?` of the encoder propagates the writer's error; the
\* encoder has no error of its own.
write_to_file(s, k) == emit(writes(s), k)

---------------------------------------------------------------------------
(* HeirBin::read_from_file.  The reader is a byte sequence b and a cursor  *)
(* pos (the number of bytes consumed so far).  Every step returns either   *)
(* Ok with a value and the new cursor, or the error that `?` propagates,   *)
(* with the cursor as the last completed read left it.                     *)

Ok(v, pos) == [ok |-> TRUE, kind |-> "Ok", msg |-> "", pos |-> pos, v |-> v]

\* read_exact on fewer bytes than asked for.
Eof(pos) ==
    [ok |-> FALSE, kind |-> "UnexpectedEof", msg |-> "failed to fill whole buffer",
     pos |-> pos, v |-> <<>>]

\* io::Error::new(ErrorKind::InvalidData, msg).
Invalid(msg, pos) ==
    [ok |-> FALSE, kind |-> "InvalidData", msg |-> msg, pos |-> pos, v |-> <<>>]

\* Whether reader.read_exact of n bytes succeeds at cursor pos.
can_read(b, pos, n) == pos + n <= Len(b)

\* The n bytes read_exact delivers at cursor pos.
take(b, pos, n) == SubSeq(b, pos + 1, pos + n)

is_cont(c) == c >= 128 /\ c <= 191

RECURSIVE utf8_from(_, _)
\* String::from_utf8 succeeds on bs[i..]: well-formed UTF-8 (no overlong
\* forms, no surrogates, nothing above U+10FFFF).
utf8_from(bs, i) ==
    IF i > Len(bs) THEN TRUE
    ELSE LET c == bs[i]
             n == Len(bs)
         IN  IF c < 128 THEN utf8_from(bs, i + 1)
             ELSE IF c >= 194 /\ c <= 223
             THEN i + 1 <= n /\ is_cont(bs[i + 1]) /\ utf8_from(bs, i + 2)
             ELSE IF c >= 224 /\ c <= 239
             THEN /\ i + 2 <= n
                  /\ is_cont(bs[i + 1]) /\ is_cont(bs[i + 2])
                  /\ (c = 224 => bs[i + 1] >= 160)
                  /\ (c = 237 => bs[i + 1] <= 159)
                  /\ utf8_from(bs, i + 3)
             ELSE IF c >= 240 /\ c <= 244
             THEN /\ i + 3 <= n
                  /\ is_cont(bs[i + 1]) /\ is_cont(bs[i + 2]) /\ is_cont(bs[i + 3])
                  /\ (c = 240 => bs[i + 1] >= 144)
                  /\ (c = 244 => bs[i + 1] <= 143)
                  /\ utf8_from(bs, i + 4)
             ELSE FALSE

from_utf8_ok(bs) == utf8_from(bs, 1)

\* A location read that first looks for the terminator in the rest of the
\* input and reads nothing when there is none.
read_location_scan(b, pos, acc) ==
    LET zs == {q \in (pos + 1)..Len(b) : b[q] = 0}
    IN  IF zs = {} THEN Eof(pos)
        ELSE LET z == CHOOSE q \in zs : \A r \in zs : q <= r
             IN  Ok(acc \o SubSeq(b, pos + 1, z - 1), z)

RECURSIVE read_location_keep_nul(_, _, _)
\* A location loop that keeps the terminating 0 byte in the string.
read_location_keep_nul(b, pos, acc) ==
    IF ~can_read(b, pos, 1) THEN Eof(pos)
    ELSE IF b[pos + 1] = 0 THEN Ok(Append(acc, 0), pos + 1)
    ELSE read_location_keep_nul(b, pos + 1, Append(acc, b[pos + 1]))

RECURSIVE read_location(_, _, _)
\* The location loop: one byte per read_exact, up to the first 0 byte.
read_location(b, pos, acc) ==
    IF ~can_read(b, pos, 1) THEN Eof(pos)
    ELSE IF b[pos + 1] = 0 THEN Ok(acc, pos + 1)
    ELSE read_location(b, pos + 1, Append(acc, b[pos + 1]))

\* One Player: 4 bytes id, 4 bytes stack, two read_exact calls.
read_player(b, pos) ==
    IF ~can_read(b, pos, 4) THEN Eof(pos)
    ELSE IF ~can_read(b, pos + 4, 4) THEN Eof(pos + 4)
    ELSE Ok([id |-> from_le_bytes(take(b, pos, 4)),
             stack |-> from_le_bytes(take(b, pos + 4, 4))], pos + 8)

\* A player loop that takes the players the input does not hold as zeros.
read_players_zero_fill(b, pos, n, acc) ==
    LET avail == Len(b) - pos
        k == Min(n, avail \div 8)
    IN  Ok(acc \o [i \in 1..n |->
                     IF i <= k THEN read_player(b, pos + 8 * (i - 1)).v
                     ELSE [id |-> U32(0), stack |-> U32(0)]],
           pos + 8 * n)

\* `for _ in 0..num_players[0]`: n players of 8 bytes.  The loop stops at the
\* first read_exact that falls short: after k whole players, in the id read
\* or in the stack read.
read_players(b, pos, n, acc) ==
    LET avail == Len(b) - pos
        k == Min(n, avail \div 8)
    IN  IF k < n
        THEN Eof(IF avail - 8 * k >= 4 THEN pos + 8 * k + 4 ELSE pos + 8 * k)
        ELSE Ok(acc \o [i \in 1..n |-> read_player(b, pos + 8 * (i - 1)).v],
                pos + 8 * n)

\* Hole cards with every byte checked as a card tag (<= 53).
read_hole_cards_checked(b, pos, n, acc) ==
    LET avail == Len(b) - pos
        k == Min(n, avail \div 2)
    IN  IF \E i \in 1..(2 * k) : b[pos + i] > 53
        THEN Invalid("Invalid card value", pos + 2 * k)
        ELSE IF k < n
        THEN Eof(pos + 2 * k)
        ELSE Ok(acc \o [i \in 1..n |-> take(b, pos + 2 * (i - 1), 2)], pos + 2 * n)

\* `for _ in 0..num_players[0]` of a hand: n pairs of 2 bytes, kept as read,
\* one read_exact per pair.
read_hole_cards(b, pos, n, acc) ==
    LET avail == Len(b) - pos
        k == Min(n, avail \div 2)
    IN  IF k < n
        THEN Eof(pos + 2 * k)
        ELSE Ok(acc \o [i \in 1..n |-> take(b, pos + 2 * (i - 1), 2)], pos + 2 * n)

\* One Action: 1 byte player_and_action, 4 bytes bet_amount.
read_action(b, pos) ==
    [player_and_action |-> b[pos + 1],
     bet_amount |-> from_le_bytes(take(b, pos + 1, 4))]

\* `for _ in 0..num_actions`: n actions of 1 + 4 bytes, two read_exact calls
\* each.
read_actions(b, pos, n, acc) ==
    LET avail == Len(b) - pos
        k == Min(n, avail \div 5)
    IN  IF k < n
        THEN Eof(IF avail - 5 * k >= 1 THEN pos + 5 * k + 1 ELSE pos + 5 * k)
        ELSE Ok(acc \o [i \in 1..n |-> read_action(b, pos + 5 * (i - 1))],
                pos + 5 * n)

\* The body of a Hand record (after its tag byte).
read_hand(b, pos) ==
    IF ~can_read(b, pos, 4) THEN Eof(pos)
    ELSE IF ~can_read(b, pos + 4, 1) THEN Eof(pos + 4)
    ELSE IF ~can_read(b, pos + 5, 1) THEN Eof(pos + 5)
    ELSE LET hc == read_hole_cards(b, pos + 6, b[pos + 6], <<>>)
         IN  IF ~hc.ok THEN hc
             ELSE IF ~can_read(b, hc.pos, 1) THEN Eof(hc.pos)
             ELSE LET ac == read_actions(b, hc.pos + 1, b[hc.pos + 1], <<>>)
                  IN  IF ~ac.ok THEN ac
                      ELSE IF ~can_read(b, ac.pos, 8) THEN Eof(ac.pos)
                      ELSE IF ~can_read(b, ac.pos + 8, 4) THEN Eof(ac.pos + 8)
                      ELSE Ok([type |-> "Hand",
                               id |-> from_le_bytes(take(b, pos, 4)),
                               button_position |-> b[pos + 5],
                               hole_cards |-> hc.v,
                               actions |-> ac.v,
                               timestamp |-> from_le_bytes(take(b, ac.pos, 8)),
                               board |-> from_le_bytes(take(b, ac.pos + 8, 4))],
                              ac.pos + 12)

\* The body of a StackUpdate record.
read_stack_update(b, pos) ==
    IF ~can_read(b, pos, 1) THEN Eof(pos)
    ELSE IF ~can_read(b, pos + 1, 4) THEN Eof(pos + 1)
    ELSE Ok([type |-> "StackUpdate", seat |-> b[pos + 1],
             stack |-> from_le_bytes(take(b, pos + 1, 4))], pos + 5)

\* A SeatUpdate body whose presence byte is tested against 0 only.
read_seat_update_nonzero(b, pos) ==
    IF ~can_read(b, pos, 1) THEN Eof(pos)
    ELSE IF ~can_read(b, pos + 1, 1) THEN Eof(pos + 1)
    ELSE IF b[pos + 2] # 0
         THEN LET p == read_player(b, pos + 2)
              IN  IF ~p.ok THEN p
                  ELSE Ok([type |-> "SeatUpdate", seat |-> b[pos + 1],
                           player |-> <<p.v>>], p.pos)
         ELSE Ok([type |-> "SeatUpdate", seat |-> b[pos + 1], player |-> <<>>], pos + 2)

\* The body of a SeatUpdate record: seat, presence byte, optional player.
read_seat_update(b, pos) ==
    IF ~can_read(b, pos, 1) THEN Eof(pos)
    ELSE IF ~can_read(b, pos + 1, 1) THEN Eof(pos + 1)
    ELSE LET present == b[pos + 2]
         IN  IF present = 1
             THEN LET p == read_player(b, pos + 2)
                  IN  IF ~p.ok THEN p
                      ELSE Ok([type |-> "SeatUpdate", seat |-> b[pos + 1],
                               player |-> <<p.v>>], p.pos)
             ELSE IF present = 0
             THEN Ok([type |-> "SeatUpdate", seat |-> b[pos + 1],
                      player |-> <<>>], pos + 2)
             ELSE Invalid("Invalid player presence byte", pos + 2)

\* An event record whose last match arm takes every tag from 2 up.
read_event_ge2(b, pos) ==
    IF ~can_read(b, pos, 1) THEN Eof(pos)
    ELSE LET tag == b[pos + 1]
         IN  CASE tag = 0 -> read_hand(b, pos + 1)
               [] tag = 1 -> read_stack_update(b, pos + 1)
               [] OTHER -> read_seat_update(b, pos + 1)

\* One event record: the tag byte, then `match event_type_byte[0]`.
read_event(b, pos) ==
    IF ~can_read(b, pos, 1) THEN Eof(pos)
    ELSE LET tag == b[pos + 1]
         IN  CASE tag = 0 -> read_hand(b, pos + 1)
               [] tag = 1 -> read_stack_update(b, pos + 1)
               [] tag = 2 -> read_seat_update(b, pos + 1)
               [] OTHER -> Invalid("Invalid event type", pos + 1)

RECURSIVE read_events(_, _, _, _, _)
\* `for _ in 0..num_events`: i events read so far out of the u32 n.
read_events(b, pos, i, n, acc) ==
    IF ~LessU32(i, n) THEN Ok(acc, pos)
    ELSE LET r == read_event(b, pos)
         IN  IF ~r.ok THEN r
             ELSE read_events(b, r.pos, i + 1, n, Append(acc, r.v))

\* One table record.
read_table(b, pos) ==
    IF ~can_read(b, pos, 4) THEN Eof(pos)
    ELSE LET loc == read_location(b, pos + 4, <<>>)
         IN  IF ~loc.ok THEN loc
             ELSE IF ~from_utf8_ok(loc.v) THEN Invalid("Invalid location string", loc.pos)
             ELSE IF ~can_read(b, loc.pos, 1) THEN Eof(loc.pos)
             ELSE IF ~can_read(b, loc.pos + 1, 1) THEN Eof(loc.pos + 1)
             ELSE LET pl == read_players(b, loc.pos + 2, b[loc.pos + 2], <<>>)
                  IN  IF ~pl.ok THEN pl
                      ELSE IF ~can_read(b, pl.pos, 4) THEN Eof(pl.pos)
                      ELSE LET ev == read_events(b, pl.pos + 4, 0,
                                        from_le_bytes(take(b, pl.pos, 4)), <<>>)
                           IN  IF ~ev.ok THEN ev
                               ELSE Ok([id |-> from_le_bytes(take(b, pos, 4)),
                                        location |-> loc.v,
                                        table_size |-> b[loc.pos + 1],
                                        initial_context |-> pl.v,
                                        events |-> ev.v], ev.pos)

RECURSIVE read_tables_lenient(_, _, _, _)
\* A table loop that also stops, with what it has, where the input ends.
read_tables_lenient(b, pos, n, acc) ==
    IF n = 0 \/ pos >= Len(b) THEN Ok(acc, pos)
    ELSE LET r == read_table(b, pos)
         IN  IF ~r.ok THEN r
             ELSE read_tables_lenient(b, r.pos, n - 1, Append(acc, r.v))

RECURSIVE read_tables(_, _, _, _)
\* `for _ in 0..num_tables`.
read_tables(b, pos, n, acc) ==
    IF n = 0 THEN Ok(acc, pos)
    ELSE LET r == read_table(b, pos)
         IN  IF ~r.ok THEN r
             ELSE read_tables(b, r.pos, n - 1, Append(acc, r.v))

\* A magic check that looks at the first two bytes only.
magic_ok_prefix(m) == m[1] = MAGIC_NUMBER[1] /\ m[2] = MAGIC_NUMBER[2]

\* The magic check: the 4 bytes read against MAGIC_NUMBER.
magic_ok(m) == m = MAGIC_NUMBER

\* A version check that accepts every version up to 1.
version_ok_compat(v) == v <= VERSION + 1

\* The version check: the byte read against VERSION.
version_ok(v) == v = VERSION

\* A decoder that wants the input to end after the last table.
read_from_file_to_end(b) ==
    IF ~can_read(b, 0, 4) THEN Eof(0)
    ELSE IF ~magic_ok(take(b, 0, 4)) THEN Invalid("Invalid magic number", 4)
    ELSE IF ~can_read(b, 4, 1) THEN Eof(4)
    ELSE IF ~version_ok(b[5]) THEN Invalid("Unsupported version", 5)
    ELSE IF ~can_read(b, 5, 4) THEN Eof(5)
    ELSE IF ~can_read(b, 9, 1) THEN Eof(9)
    ELSE LET ts == read_tables(b, 10, b[10], <<>>)
         IN  IF ~ts.ok THEN ts
             ELSE IF ts.pos < Len(b) THEN Invalid("Trailing bytes", ts.pos + 1)
             ELSE Ok(<<[session_id |-> from_le_bytes(take(b, 5, 4)),
                        tables |-> ts.v]>>, ts.pos)

\* read_from_file: header, then the tables.  `v` is <<session>> on Ok and
\* <<>> on every error: no partial session is returned.
read_from_file(b) ==
    IF ~can_read(b, 0, 4) THEN Eof(0)
    ELSE IF ~magic_ok(take(b, 0, 4)) THEN Invalid("Invalid magic number", 4)
    ELSE IF ~can_read(b, 4, 1) THEN Eof(4)
    ELSE IF ~version_ok(b[5]) THEN Invalid("Unsupported version", 5)
    ELSE IF ~can_read(b, 5, 4) THEN Eof(5)
    ELSE IF ~can_read(b, 9, 1) THEN Eof(9)
    ELSE LET ts == read_tables(b, 10, b[10], <<>>)
         IN  IF ~ts.ok THEN ts
             ELSE Ok(<<[session_id |-> from_le_bytes(take(b, 5, 4)),
                        tables |-> ts.v]>>, ts.pos)

---------------------------------------------------------------------------
(* The explored inputs: in-memory sessions as a caller assembles them, and *)
(* raw byte streams that no encoder produced.                              *)

\* All sequences over S of length at most n.
Seqs(S, n) == UNION {[1..k -> S] : k \in 0..n}

Player(id, stack) == [id |-> id, stack |-> stack]

StackUpdate(seat, stack) == [type |-> "StackUpdate", seat |-> seat, stack |-> stack]

\* SeatUpdate with player: Option<Player> as <<>> (None) or <<p>> (Some(p)).
SeatUpdate(seat, player) == [type |-> "SeatUpdate", seat |-> seat, player |-> player]

Hand(hole, actions, board) ==
    [type |-> "Hand", id |-> U32(1), button_position |-> 0, hole_cards |-> hole,
     actions |-> actions, timestamp |-> U64(24738, 4999), board |-> board]

Table(location, size, players, events) ==
    [id |-> U32(1), location |-> location, table_size |-> size,
     initial_context |-> players, events |-> events]

Session(id, tables) == [session_id |-> id, tables |-> tables]

\* Five 6-bit card bytes packed into a word, slot 0 lowest (tests::pack_board,
\* for cards that do not overlap).
pack_board(cards) ==
    U32(cards[1] + 64 * cards[2] + 4096 * cards[3]
        + 262144 * cards[4] + 16777216 * cards[5])

\* [7c, 7s, 7h, Xx, Xx], and two words with a slot above 53 (the second with
\* the two reserved bits set as well).
BoardOk == pack_board(<<24, 27, 26, 53, 53>>)

Boards == {BoardOk, pack_board(<<24, 54, 26, 53, 53>>), <<65535, 65535>>}

\* Hole-card pairs: the test fixture's [0x2C, 0x3D] and a pair of tags <= 53.
HolePairs == {<<44, 61>>, <<51, 0>>}

\* Actions: (player_and_action, bet_amount); the second bet is 2^30.
Actions == {[player_and_action |-> 1, bet_amount |-> U32(100)],
            [player_and_action |-> 18, bet_amount |-> <<16384, 513>>]}

Players == {Player(U32(1), U32(10000)), Player(<<65535, 65279>>, U32(0))}

\* Location bytes: NUL, 'C', and the two bytes of U+00E9.
LocBytes == {0, 67, 195, 169}

\* A String is valid UTF-8 by construction; it may hold NUL.
Locations == {l \in Seqs(LocBytes, MaxLoc) : from_utf8_ok(l)}

TableSizes == {0, 6}

Hands ==
    {Hand(h, <<>>, BoardOk) : h \in Seqs(HolePairs, MaxHole)}
    \cup {Hand(<<>>, a, BoardOk) : a \in Seqs(Actions, MaxActions)}
    \cup {Hand(<<<<44, 61>>>>, <<>>, bd) : bd \in Boards}

\* The events that sequences of events are drawn from.
EventAlphabet ==
    { Hand(<<<<51, 0>>>>, <<[player_and_action |-> 1, bet_amount |-> U32(100)]>>, BoardOk),
      StackUpdate(0, U32(9900)),
      SeatUpdate(2, <<>>),
      SeatUpdate(2, <<Player(U32(0), U32(0))>>),
      SeatUpdate(2, <<Player(U32(3), U32(7500))>>) }

\* The tables that sequences of tables are drawn from.
TableAlphabet ==
    { Table(<<67>>, 6, <<Player(U32(1), U32(10000))>>, <<StackUpdate(0, U32(9900))>>),
      Table(<<>>, 0, <<>>, <<SeatUpdate(2, <<>>)>>) }

Tables ==
    {Table(l, z, <<>>, <<>>) : l \in Locations, z \in TableSizes}
    \cup {Table(<<67>>, 6, ps, <<>>) : ps \in Seqs(Players, MaxPlayers)}
    \cup {Table(<<67>>, 6, <<>>, es) : es \in Seqs(EventAlphabet, MaxEvents)}
    \cup {Table(<<67>>, 6, <<>>, <<h>>) : h \in Hands}

\* A hand whose hole-card vector is one longer than its 1-byte count holds.
OversizeHand == Hand([i \in 1..256 |-> <<0, 0>>], <<>>, BoardOk)

Sessions ==
    {Session(id, <<>>) : id \in {U32(1), <<43981, 4660>>}}
    \cup {Session(U32(1), <<t>>) : t \in Tables}
    \cup {Session(U32(1), ts) : ts \in Seqs(TableAlphabet, MaxTables)}
    \cup {Session(U32(1), <<Table(<<67>>, 6, <<>>, <<OversizeHand>>)>>)}

\* Sessions with a vector longer than its 1-byte count field holds: 257
\* tables, 256 initial players, 256 hole-card pairs, 258 actions.
OversizeSessions ==
    { Session(U32(1), [i \in 1..257 |-> Table(<<>>, 0, <<>>, <<>>)]),
      Session(U32(1), <<Table(<<67>>, 6, [i \in 1..256 |-> Player(U32(i), U32(0))], <<>>)>>),
      Session(U32(1), <<Table(<<67>>, 6, <<>>, <<OversizeHand>>)>>),
      Session(U32(1), <<Table(<<67>>, 6, <<>>,
          <<Hand(<<>>, [i \in 1..258 |-> [player_and_action |-> 1, bet_amount |-> U32(100)]],
                 BoardOk)>>)>>) }

\* The session of the documented scenario: one table "Casino1" of size 6
\* with players (1, 10000) and (2, 5000), a hand with hole cards [Ac, Ks], one
\* raise of 100 and the board [7c, 7s, 7h, Xx, Xx], a stack update and a seat
\* update with a player.
FixtureSession ==
    Session(U32(1),
        <<[id |-> U32(1), location |-> <<67, 97, 115, 105, 110, 111, 49>>,
           table_size |-> 6,
           initial_context |-> <<Player(U32(1), U32(10000)), Player(U32(2), U32(5000))>>,
           events |-> << Hand(<<<<0, 51>>>>,
                              <<[player_and_action |-> 3, bet_amount |-> U32(100)]>>,
                              BoardOk),
                         StackUpdate(0, U32(9900)),
                         SeatUpdate(2, <<Player(U32(3), U32(7500))>>) >>]>>)

\* Bytes a corrupted stream carries in place of the written one.
CorruptVals == {0, 1, 2, 3, 255}

TailBytes == {0, 1, 255}

\* Raw streams: the magic, any fifth byte, and a short tail.
RawStreams ==
    {MAGIC_NUMBER \o <<v>> \o t : v \in Byte, t \in Seqs(TailBytes, MaxTail)}

NoResult == [ok |-> FALSE, kind |-> "none", msg |-> "", pos |-> 0, v |-> <<>>]

NoWrite == [ok |-> FALSE, kind |-> "none", calls |-> 0, bytes |-> <<>>]

NoHow == [kind |-> "none", at |-> 0, val |-> 0]

NoCall == [fn |-> "none"]

NoBoard == <<>>

---------------------------------------------------------------------------
(* The frame-codec scenario: a session is written, the bytes reach a       *)
(* reader intact, cut short or with one byte changed, and are read back.   *)

Init ==
    /\ sc_in = NoCall
    /\ sc_out = NoCall
    /\ brd = NoBoard
    /\ failAt = 0
    /\ wres = NoWrite
    /\ result = NoResult
    /\ \/ /\ pc = "built"
          /\ session \in Sessions
          /\ input = <<>>
          /\ how = NoHow
       \/ /\ pc = "ready"
          /\ session = Session(U32(0), <<>>)
          /\ input \in RawStreams
          /\ how = [kind |-> "raw", at |-> 0, val |-> 0]

\* file.write_to_file(&mut writer), against a writer that may reject a write
\* (write_all of an empty slice issues no write and cannot be rejected).
Write ==
    /\ pc = "built"
    /\ \E k \in {0} \cup {i \in 1..Len(writes(session)) : writes(session)[i].b # <<>>} :
          /\ failAt' = k
          /\ wres' = write_to_file(session, k)
    /\ pc' = "written"
    /\ UNCHANGED <<session, input, how, result, sc_in, sc_out, brd>>

\* The written bytes reach the reader as they are.
FeedIntact ==
    /\ pc = "written"
    /\ wres.ok
    /\ input' = wres.bytes
    /\ how' = [kind |-> "intact", at |-> 0, val |-> 0]
    /\ pc' = "ready"
    /\ UNCHANGED <<session, failAt, wres, result, sc_in, sc_out, brd>>

\* Only the first n bytes reach the reader, n < len.
FeedTruncated ==
    /\ pc = "written"
    /\ wres.ok
    /\ \E n \in 0..(Len(wres.bytes) - 1) :
          /\ input' = SubSeq(wres.bytes, 1, n)
          /\ how' = [kind |-> "truncated", at |-> n, val |-> 0]
    /\ pc' = "ready"
    /\ UNCHANGED <<session, failAt, wres, result, sc_in, sc_out, brd>>

\* One byte (1-based offset p) reaches the reader changed to v.
FeedCorrupted ==
    /\ pc = "written"
    /\ wres.ok
    /\ \E p \in 1..Len(wres.bytes) :
          \E v \in CorruptVals \ {wres.bytes[p]} :
             /\ input' = [wres.bytes EXCEPT ![p] = v]
             /\ how' = [kind |-> "corrupted", at |-> p, val |-> v]
    /\ pc' = "ready"
    /\ UNCHANGED <<session, failAt, wres, result, sc_in, sc_out, brd>>

\* The written bytes reach the reader followed by other bytes.
FeedExtended ==
    /\ pc = "written"
    /\ wres.ok
    /\ \E t \in Seqs(TailBytes, MaxTail) \ {<<>>} :
          /\ input' = wres.bytes \o t
          /\ how' = [kind |-> "extended", at |-> Len(wres.bytes), val |-> Len(t)]
    /\ pc' = "ready"
    /\ UNCHANGED <<session, failAt, wres, result, sc_in, sc_out, brd>>

\* HeirBin::read_from_file(&mut reader).
Read ==
    /\ pc = "ready"
    /\ result' = read_from_file(input)
    /\ pc' = "done"
    /\ UNCHANGED <<session, failAt, wres, input, how, sc_in, sc_out, brd>>

Next == Write \/ FeedIntact \/ FeedTruncated \/ FeedCorrupted \/ FeedExtended \/ Read

Spec == Init /\ [][Next]_vars

\* The step in which a call of read_from_file returns: of the steps of Next
\* only Read takes pc from "ready" to "done", and Read is enabled in every
\* state with pc = "ready".
ReadReturns == pc = "ready" /\ pc' = "done"

\* The same scenario with the call of read_from_file, once made, running to
\* its return: the reader is an in-memory byte sequence and never blocks.
SpecDecode == Init /\ [][Next]_vars /\ WF_pc(ReadReturns)

\* The encoder alone, on the sessions above and on the oversize ones.
InitEncode ==
    /\ pc = "built"
    /\ session \in Sessions \cup OversizeSessions \cup {FixtureSession}
    /\ input = <<>>
    /\ how = NoHow
    /\ sc_in = NoCall
    /\ sc_out = NoCall
    /\ brd = NoBoard
    /\ failAt = 0
    /\ wres = NoWrite
    /\ result = NoResult

NextEncode == Write

SpecEncode == InitEncode /\ [][NextEncode]_vars

---------------------------------------------------------------------------
(* Action (types/action.rs): a 2-bit kind and 30-bit cents in one u32.     *)

RECURSIVE BitOr(_, _)
\* a | b on naturals.
BitOr(a, b) ==
    IF a = 0 THEN b
    ELSE IF b = 0 THEN a
    ELSE (IF a % 2 = 1 \/ b % 2 = 1 THEN 1 ELSE 0) + 2 * BitOr(a \div 2, b \div 2)

RECURSIVE BitAnd(_, _)
\* a & b on naturals.
BitAnd(a, b) ==
    IF a = 0 \/ b = 0 THEN 0
    ELSE (IF a % 2 = 1 /\ b % 2 = 1 THEN 1 ELSE 0) + 2 * BitAnd(a \div 2, b \div 2)

\* The u32 operators on <<hi, lo>>; a shift by s < 32 drops the bits that
\* leave the word.
and_u32(x, y) == <<BitAnd(x[1], y[1]), BitAnd(x[2], y[2])>>

or_u32(x, y) == <<BitOr(x[1], y[1]), BitOr(x[2], y[2])>>

not_u32(x) == <<Limb - 1 - x[1], Limb - 1 - x[2]>>

shl_u32(x, s) ==
    IF s < 16
    THEN <<((x[1] * 2^s) % Limb) + ((x[2] * 2^s) \div Limb), (x[2] * 2^s) % Limb>>
    ELSE <<(x[2] * 2^(s - 16)) % Limb, 0>>

shr_u32(x, s) ==
    IF s < 16
    THEN <<x[1] \div 2^s, (x[2] \div 2^s) + ((x[1] % 2^s) * 2^(16 - s))>>
    ELSE <<0, x[1] \div 2^(s - 16)>>

\* ActionType as its u8: CheckFold = 0, Call = 1, Bet = 2, Raise = 3.
ActionTypes == 0..3

ActionType_to_u8(at) == at

\* cents >= (1 << 30) on a u32 <<hi, lo>>.
cents_exceeds_range(cents) == cents[1] >= 16384

\* Action::new with the test `cents > (1 << 30)`.
Action_new_gt(at, cents) ==
    IF cents[1] > 16384 \/ (cents[1] = 16384 /\ cents[2] > 0)
    THEN [ok |-> FALSE, err |-> "CentsExceedsRange", arg |-> cents]
    ELSE [ok |-> TRUE,
          value |-> <<BitOr((ActionType_to_u8(at) * 16384) % Limb, cents[1]), cents[2]>>]

\* Action::new: ((at as u32) << 30) | cents, or CentsExceedsRange(cents).
Action_new(at, cents) ==
    IF cents_exceeds_range(cents)
    THEN [ok |-> FALSE, err |-> "CentsExceedsRange", arg |-> cents]
    ELSE [ok |-> TRUE,
          value |-> <<BitOr((ActionType_to_u8(at) * 16384) % Limb, cents[1]), cents[2]>>]

\* Action::action_type: (self.0 >> 30) as u8.
Action_action_type(a) == a[1] \div 16384

\* Action::cents: self.0 & 0x3FFF_FFFF.
Action_cents(a) == <<a[1] % 16384, a[2]>>

\* ActionType::from_u8: the kind for 0 .. 3, else InvalidU8AsActionType.
ActionType_from_u8(value) ==
    IF value \in ActionTypes THEN [ok |-> TRUE, value |-> value]
    ELSE [ok |-> FALSE, err |-> "InvalidU8AsActionType", arg |-> value]

\* Action::serialize with the bytes most significant first.
Action_serialize_be(a) ==
    [ok |-> TRUE, bytes |-> [i \in 1..4 |-> to_le_bytes(a)[5 - i]]]

\* Action::serialize into a Vec: the four little-endian bytes of the word.
Action_serialize(a) == [ok |-> TRUE, bytes |-> to_le_bytes(a)]

\* Action::deserialize taking the kind from bits 29 .. 31.
Action_deserialize_three_bits(bytes) ==
    IF Len(bytes) < 4
    THEN [ok |-> FALSE, err |-> "IoError", arg |-> "UnexpectedEof"]
    ELSE LET value == from_le_bytes(SubSeq(bytes, 1, 4))
             at == ActionType_from_u8(as_u8(shr_u32(value, 29)[2]))
         IN  IF at.ok THEN [ok |-> TRUE, value |-> value] ELSE at

\* Action::deserialize: read_exact of four bytes (a short read becomes
\* IoError(UnexpectedEof)), the kind (value >> 30) as u8 passed through
\* ActionType::from_u8, then the word as it is.
Action_deserialize(bytes) ==
    IF Len(bytes) < 4
    THEN [ok |-> FALSE, err |-> "IoError", arg |-> "UnexpectedEof"]
    ELSE LET value == from_le_bytes(SubSeq(bytes, 1, 4))
             at == ActionType_from_u8(as_u8(shr_u32(value, 30)[2]))
         IN  IF at.ok THEN [ok |-> TRUE, value |-> value] ELSE at

\* The cents values explored: around 0, 2^16, 2^30, 2^31 and 2^32 - 1.
CentsHi == {0, 1, 16383, 16384, 16385, 32768, 65535}

CentsLo == {0, 1, 100, 65535}

\* The word test_action_deserialize_invalid_action_type builds,
\* (4u32 << 30) | 500, as its little-endian bytes.
InvalidValueBytes == to_le_bytes(or_u32(shl_u32(U32(4), 30), U32(500)))

\* Inputs of Action::deserialize: four-byte words over bytes that put every
\* pattern in the two kind bits, inputs that end early, one with a byte to
\* spare, and the word of the test.
ActionByteSample == {0, 1, 63, 64, 128, 191, 192, 255}

RawActions ==
    [1..4 -> ActionByteSample]
    \cup {<<>>, <<0>>, <<255, 255>>, <<0, 0, 0>>, <<255, 255, 255>>, <<1, 2, 3, 196, 5>>}
    \cup {InvalidValueBytes}

InitAction ==
    /\ pc = "call"
    /\ \/ \E at \in ActionTypes, hi \in CentsHi, lo \in CentsLo :
             sc_in = [fn |-> "Action::new", at |-> at, cents |-> <<hi, lo>>]
       \/ \E bs \in RawActions :
             sc_in = [fn |-> "Action::deserialize", bytes |-> bs]
    /\ sc_out = NoCall
    /\ brd = NoBoard
    /\ session = Session(U32(0), <<>>)
    /\ failAt = 0
    /\ wres = NoWrite
    /\ input = <<>>
    /\ how = NoHow
    /\ result = NoResult

ActionNew ==
    /\ pc = "call"
    /\ sc_in.fn = "Action::new"
    /\ sc_out' = Action_new(sc_in.at, sc_in.cents)
    /\ pc' = "returned"
    /\ UNCHANGED <<session, failAt, wres, input, how, result, sc_in, brd>>

\* Action::deserialize of a raw input.
ActionDeserialize ==
    /\ pc = "call"
    /\ sc_in.fn = "Action::deserialize"
    /\ sc_out' = Action_deserialize(sc_in.bytes)
    /\ pc' = "returned"
    /\ UNCHANGED <<session, failAt, wres, input, how, result, sc_in, brd>>

\* serialize of the Action that Action::new returned.
ActionSerialize ==
    /\ pc = "returned"
    /\ sc_in.fn = "Action::new"
    /\ sc_out.ok
    /\ sc_in' = [fn |-> "Action::serialize", self |-> sc_out.value,
                 at |-> sc_in.at, cents |-> sc_in.cents]
    /\ sc_out' = Action_serialize(sc_out.value)
    /\ pc' = "serialized"
    /\ UNCHANGED <<session, failAt, wres, input, how, result, brd>>

\* deserialize of the bytes serialize wrote.
ActionReread ==
    /\ pc = "serialized"
    /\ sc_in.fn = "Action::serialize"
    /\ sc_in' = [fn |-> "Action::deserialize", bytes |-> sc_out.bytes,
                 self |-> sc_in.self, at |-> sc_in.at, cents |-> sc_in.cents]
    /\ sc_out' = Action_deserialize(sc_out.bytes)
    /\ pc' = "reread"
    /\ UNCHANGED <<session, failAt, wres, input, how, result, brd>>

NextAction == ActionNew \/ ActionDeserialize \/ ActionSerialize \/ ActionReread

SpecAction == InitAction /\ [][NextAction]_vars

---------------------------------------------------------------------------
(* Version (types/version.rs): major and minor, 4 bits each, in one u8.    *)

\* Version::new with the two range tests in the other order.
Version_new_minor_first(major, minor) ==
    IF minor >= 16 THEN [ok |-> FALSE, err |-> "MinorVersionExceedsRange", arg |-> minor]
    ELSE IF major >= 16 THEN [ok |-> FALSE, err |-> "MajorVersionExceedsRange", arg |-> major]
    ELSE [ok |-> TRUE, value |-> BitOr((major * 16) % 256, minor % 16)]

\* Version::new: (major << 4) | (minor & 0x0F) on u8, or the error of the
\* first component out of range, major first.
Version_new(major, minor) ==
    IF major >= 16 THEN [ok |-> FALSE, err |-> "MajorVersionExceedsRange", arg |-> major]
    ELSE IF minor >= 16 THEN [ok |-> FALSE, err |-> "MinorVersionExceedsRange", arg |-> minor]
    ELSE [ok |-> TRUE, value |-> BitOr((major * 16) % 256, minor % 16)]

\* Version::major: self.0 >> 4.
Version_major(v) == v \div 16

\* Version::minor: self.0 & 0x0F.
Version_minor(v) == v % 16

\* Version::serialize into a Vec: the one byte.
Version_serialize(v) == [ok |-> TRUE, bytes |-> <<v>>]

\* Version::deserialize with the range test made on the whole byte.
Version_deserialize_whole_byte(bytes) ==
    IF Len(bytes) < 1 THEN [ok |-> FALSE, err |-> "UnexpectedEof"]
    ELSE IF bytes[1] >= 16
         THEN [ok |-> FALSE, err |-> "InvalidData", arg |-> bytes[1]]
         ELSE [ok |-> TRUE, value |-> bytes[1]]

\* Version::deserialize: read_exact of one byte, Version(buf[0]), then the
\* two range tests on major() and minor().
Version_deserialize(bytes) ==
    IF Len(bytes) < 1 THEN [ok |-> FALSE, err |-> "UnexpectedEof"]
    ELSE LET version == bytes[1]
         IN  IF Version_major(version) >= 16
             THEN [ok |-> FALSE, err |-> "InvalidData", arg |-> Version_major(version)]
             ELSE IF Version_minor(version) >= 16
             THEN [ok |-> FALSE, err |-> "InvalidData", arg |-> Version_minor(version)]
             ELSE [ok |-> TRUE, value |-> version]

\* Inputs of Version::deserialize: the empty input, every single byte, and
\* two inputs with a byte to spare.
RawVersions == {<<>>, <<0, 7>>, <<255, 7>>} \cup {<<b>> : b \in Byte}

InitVersion ==
    /\ pc = "call"
    /\ \/ \E major \in Byte, minor \in Byte :
             sc_in = [fn |-> "Version::new", major |-> major, minor |-> minor]
       \/ \E bs \in RawVersions :
             sc_in = [fn |-> "Version::deserialize", bytes |-> bs]
    /\ sc_out = NoCall
    /\ brd = NoBoard
    /\ session = Session(U32(0), <<>>)
    /\ failAt = 0
    /\ wres = NoWrite
    /\ input = <<>>
    /\ how = NoHow
    /\ result = NoResult

VersionNew ==
    /\ pc = "call"
    /\ sc_in.fn = "Version::new"
    /\ sc_out' = Version_new(sc_in.major, sc_in.minor)
    /\ pc' = "returned"
    /\ UNCHANGED <<session, failAt, wres, input, how, result, sc_in, brd>>

VersionDeserialize ==
    /\ pc = "call"
    /\ sc_in.fn = "Version::deserialize"
    /\ sc_out' = Version_deserialize(sc_in.bytes)
    /\ pc' = "returned"
    /\ UNCHANGED <<session, failAt, wres, input, how, result, sc_in, brd>>

\* serialize of the Version that deserialize returned.
VersionSerialize ==
    /\ pc = "returned"
    /\ sc_in.fn = "Version::deserialize"
    /\ sc_out.ok
    /\ sc_in' = [fn |-> "Version::serialize", self |-> sc_out.value,
                 bytes |-> sc_in.bytes]
    /\ sc_out' = Version_serialize(sc_out.value)
    /\ pc' = "serialized"
    /\ UNCHANGED <<session, failAt, wres, input, how, result, brd>>

NextVersion == VersionNew \/ VersionDeserialize \/ VersionSerialize

SpecVersion == InitVersion /\ [][NextVersion]_vars

---------------------------------------------------------------------------
(* Card (types/card.rs): a repr(u8) enum, AceClubs = 0 .. KingSpades = 51, *)
(* Unknown = 52, Xx = 53.  A Card is modelled as its discriminant.         *)

Unknown == 52

Xx == 53

Cards == 0..Xx

\* Card::to_u8: *self as u8.
Card_to_u8(card) == card

\* Card::from_u8 with Xx left out of the accepted range.
Card_from_u8_no_xx(value) ==
    IF value <= Unknown THEN [ok |-> TRUE, value |-> value]
    ELSE [ok |-> FALSE, err |-> "InvalidData", msg |-> "Invalid card value", arg |-> value]

\* Card::from_u8: the card of discriminant value when value <= 53, else
\* InvalidData.
Card_from_u8(value) ==
    IF value <= 53 THEN [ok |-> TRUE, value |-> value]
    ELSE [ok |-> FALSE, err |-> "InvalidData", msg |-> "Invalid card value", arg |-> value]

InitCard ==
    /\ pc = "call"
    /\ \E value \in Byte : sc_in = [fn |-> "Card::from_u8", value |-> value]
    /\ sc_out = NoCall
    /\ brd = NoBoard
    /\ session = Session(U32(0), <<>>)
    /\ failAt = 0
    /\ wres = NoWrite
    /\ input = <<>>
    /\ how = NoHow
    /\ result = NoResult

CardFromU8 ==
    /\ pc = "call"
    /\ sc_in.fn = "Card::from_u8"
    /\ sc_out' = Card_from_u8(sc_in.value)
    /\ pc' = "returned"
    /\ UNCHANGED <<session, failAt, wres, input, how, result, sc_in, brd>>

\* to_u8 of the card from_u8 returned.
CardToU8 ==
    /\ pc = "returned"
    /\ sc_in.fn = "Card::from_u8"
    /\ sc_out.ok
    /\ sc_in' = [fn |-> "Card::to_u8", self |-> sc_out.value, tag |-> sc_in.value]
    /\ sc_out' = [ok |-> TRUE, value |-> Card_to_u8(sc_out.value)]
    /\ pc' = "converted"
    /\ UNCHANGED <<session, failAt, wres, input, how, result, brd>>

NextCard == CardFromU8 \/ CardToU8

SpecCard == InitCard /\ [][NextCard]_vars

---------------------------------------------------------------------------
(* Board (types/board.rs): five 6-bit card slots in one u32, slot i in     *)
(* bits 6i .. 6i+5; bits 30 and 31 are not used by any slot.               *)

\* Board::new with slot 4 left at zero.
Board_new_four ==
    LET xx == U32(Card_to_u8(Xx))
    IN  or_u32(or_u32(or_u32(shl_u32(xx, 18), shl_u32(xx, 12)), shl_u32(xx, 6)), xx)

\* Board::new: Xx in each of the five slots.
Board_new ==
    LET xx == U32(Card_to_u8(Xx))
    IN  or_u32(or_u32(or_u32(or_u32(shl_u32(xx, 24), shl_u32(xx, 18)),
                             shl_u32(xx, 12)), shl_u32(xx, 6)), xx)

\* set_slot without the clearing step.
set_slot_or_only(b, index, card) ==
    or_u32(b, shl_u32(and_u32(U32(Card_to_u8(card)), U32(63)), index * 6))

\* The body shared by set_card and set_card_unchecked: clear the slot, then
\* OR the card's low six bits in.
set_slot(b, index, card) ==
    LET card_val == and_u32(U32(Card_to_u8(card)), U32(63))
        shift == index * 6
        cleared == and_u32(b, not_u32(shl_u32(U32(63), shift)))
    IN  or_u32(cleared, shl_u32(card_val, shift))

\* set_card without the index test, the slot taken modulo 5.
Board_set_card_wrapping(b, index, card) ==
    [ok |-> TRUE, board |-> set_slot(b, index % 5, card)]

\* Board::set_card: InvalidInput when index >= 5, the board as it was.
Board_set_card(b, index, card) ==
    IF index >= 5
    THEN [ok |-> FALSE, err |-> "InvalidInput", board |-> b]
    ELSE [ok |-> TRUE, board |-> set_slot(b, index, card)]

\* Board::set_card_unchecked, called with index < 5 only.
Board_set_card_unchecked(b, index, card) == set_slot(b, index, card)

\* Board::get_card: InvalidInput when index >= 5, else Card::from_u8 of the
\* slot's six bits.
Board_get_card(b, index) ==
    IF index >= 5
    THEN [ok |-> FALSE, err |-> "InvalidInput", msg |-> "Index out of bounds",
          arg |-> index]
    ELSE LET shift == index * 6
             card_value == as_u8(and_u32(shr_u32(b, shift), U32(63))[2])
         IN  Card_from_u8(card_value)

\* Board::to_array: get_card(0) .. get_card(4), the first error returned.
Board_to_array(b) ==
    LET got == [i \in 1..5 |-> Board_get_card(b, i - 1)]
        bad == {i \in 1..5 : ~got[i].ok}
    IN  IF bad = {}
        THEN [ok |-> TRUE, value |-> [i \in 1..5 |-> got[i].value]]
        ELSE got[CHOOSE i \in bad : \A j \in bad : i <= j]

RECURSIVE from_array_loop(_, _, _)
\* The loop of from_array from slot i on.
from_array_loop(b, cards, i) ==
    IF i >= 5 THEN b
    ELSE from_array_loop(Board_set_card_unchecked(b, i, cards[i + 1]), cards, i + 1)

\* from_array filling the slots from the last card to the first.
Board_from_array_reversed(cards) ==
    from_array_loop(U32(0), [i \in 1..5 |-> cards[6 - i]], 0)

\* Board::from_array: Board(0), then slot i set to cards[i], i = 0 .. 4.
Board_from_array(cards) == from_array_loop(U32(0), cards, 0)

\* Board::serialize into a Vec: the four little-endian bytes of the word.
Board_serialize(b) == [ok |-> TRUE, bytes |-> to_le_bytes(b)]

\* Board::deserialize without the get_card loop.
Board_deserialize_unvalidated(bytes) ==
    IF Len(bytes) < 4 THEN [ok |-> FALSE, err |-> "UnexpectedEof"]
    ELSE [ok |-> TRUE, board |-> from_le_bytes(SubSeq(bytes, 1, 4))]

\* Board::deserialize that looks at slots 0 .. 3 only.
Board_deserialize_four(bytes) ==
    IF Len(bytes) < 4 THEN [ok |-> FALSE, err |-> "UnexpectedEof"]
    ELSE LET packed == from_le_bytes(SubSeq(bytes, 1, 4))
             bad == {i \in 0..3 : ~Board_get_card(packed, i).ok}
         IN  IF bad = {} THEN [ok |-> TRUE, board |-> packed]
             ELSE [ok |-> FALSE, err |-> "InvalidData"]

\* Board::deserialize: read_exact of four bytes, the word taken as a Board,
\* get_card(i)? for i = 0 .. 4.
Board_deserialize(bytes) ==
    IF Len(bytes) < 4 THEN [ok |-> FALSE, err |-> "UnexpectedEof"]
    ELSE LET packed == from_le_bytes(SubSeq(bytes, 1, 4))
             bad == {i \in 0..4 : ~Board_get_card(packed, i).ok}
         IN  IF bad = {} THEN [ok |-> TRUE, board |-> packed]
             ELSE [ok |-> FALSE, err |-> "InvalidData"]

\* The cards, slot indexes and arrays explored: cards of differing bit
\* patterns (000000, 010101, 101010, and Xx = 110101); every valid index and
\* two invalid ones.
CardSample == {0, 21, 42, Xx}

Indexes == (0..4) \cup {5, 100}

CardArrays == [1..5 -> CardSample]

\* Six-bit slot values on both sides of 53, and the words made of them with
\* each value of the two top bits.
SlotSample == {0, Xx, 54, 63}

RawBoardWords ==
    {or_u32(pack_board(sl), shl_u32(U32(r), 30)) : sl \in [1..5 -> SlotSample], r \in 0..3}

\* Inputs of Board::deserialize: four-byte words, and inputs that end early.
RawBoards ==
    {to_le_bytes(w) : w \in RawBoardWords} \cup {<<>>, <<53>>, <<117, 93, 215>>}

BoardCalls ==
    {[fn |-> "Board::new", cards |-> <<>>, bytes |-> <<>>]}
    \cup {[fn |-> "Board::from_array", cards |-> cs, bytes |-> <<>>] : cs \in CardArrays}
    \cup {[fn |-> "Board::deserialize", cards |-> <<>>, bytes |-> bs] : bs \in RawBoards}

InitBoard ==
    /\ pc = "call"
    /\ sc_in \in BoardCalls
    /\ sc_out = NoCall
    /\ brd = NoBoard
    /\ session = Session(U32(0), <<>>)
    /\ failAt = 0
    /\ wres = NoWrite
    /\ input = <<>>
    /\ how = NoHow
    /\ result = NoResult

BoardNew ==
    /\ pc = "call"
    /\ sc_in.fn = "Board::new"
    /\ brd' = Board_new
    /\ sc_out' = [ok |-> TRUE]
    /\ pc' = "live"
    /\ UNCHANGED <<session, failAt, wres, input, how, result, sc_in>>

BoardFromArray ==
    /\ pc = "call"
    /\ sc_in.fn = "Board::from_array"
    /\ brd' = Board_from_array(sc_in.cards)
    /\ sc_out' = [ok |-> TRUE]
    /\ pc' = "live"
    /\ UNCHANGED <<session, failAt, wres, input, how, result, sc_in>>

\* Board::deserialize of a raw input: a Board exists only on success.
BoardDeserialize ==
    /\ pc = "call"
    /\ sc_in.fn = "Board::deserialize"
    /\ LET r == Board_deserialize(sc_in.bytes)
       IN  /\ sc_out' = r
           /\ brd' = IF r.ok THEN r.board ELSE NoBoard
           /\ pc' = IF r.ok THEN "decoded" ELSE "failed"
    /\ UNCHANGED <<session, failAt, wres, input, how, result, sc_in>>

BoardSetCard ==
    /\ pc = "live"
    /\ \E index \in Indexes, card \in CardSample :
          LET r == Board_set_card(brd, index, card)
          IN  /\ sc_in' = [fn |-> "Board::set_card", index |-> index, card |-> card,
                           before |-> brd]
              /\ sc_out' = [ok |-> r.ok]
              /\ brd' = r.board
    /\ UNCHANGED <<pc, session, failAt, wres, input, how, result>>

BoardGetCard ==
    /\ pc = "live"
    /\ \E index \in Indexes :
          /\ sc_in' = [fn |-> "Board::get_card", index |-> index, before |-> brd]
          /\ sc_out' = Board_get_card(brd, index)
    /\ UNCHANGED <<pc, session, failAt, wres, input, how, result, brd>>

BoardToArray ==
    /\ pc = "live"
    /\ sc_in' = [fn |-> "Board::to_array", before |-> brd]
    /\ sc_out' = Board_to_array(brd)
    /\ UNCHANGED <<pc, session, failAt, wres, input, how, result, brd>>

BoardSerialize ==
    /\ pc = "live"
    /\ sc_in' = [fn |-> "Board::serialize", before |-> brd]
    /\ sc_out' = Board_serialize(brd)
    /\ pc' = "serialized"
    /\ UNCHANGED <<session, failAt, wres, input, how, result, brd>>

\* Board::deserialize of the bytes serialize wrote; brd stays the board that
\* was serialized.
BoardReread ==
    /\ pc = "serialized"
    /\ sc_in' = [fn |-> "Board::deserialize", bytes |-> sc_out.bytes, cards |-> <<>>]
    /\ sc_out' = Board_deserialize(sc_out.bytes)
    /\ pc' = "reread"
    /\ UNCHANGED <<session, failAt, wres, input, how, result, brd>>

NextBoard ==
    \/ BoardNew
    \/ BoardFromArray
    \/ BoardDeserialize
    \/ BoardSetCard
    \/ BoardGetCard
    \/ BoardToArray
    \/ BoardSerialize
    \/ BoardReread

SpecBoard == InitBoard /\ [][NextBoard]_vars

\* from_array then to_array, over the sample arrays and over the arrays that
\* hold each of the 54 cards in each slot (the other slots sevens).
StarArrays ==
    {[i \in 1..5 |-> IF i = k THEN c ELSE 24 + (i % 4)] : k \in 1..5, c \in Cards}

InitBoardArray ==
    /\ pc = "call"
    /\ \E cs \in CardArrays \cup StarArrays :
          sc_in = [fn |-> "Board::from_array", cards |-> cs, bytes |-> <<>>]
    /\ sc_out = NoCall
    /\ brd = NoBoard
    /\ session = Session(U32(0), <<>>)
    /\ failAt = 0
    /\ wres = NoWrite
    /\ input = <<>>
    /\ how = NoHow
    /\ result = NoResult

NextBoardArray == BoardFromArray \/ BoardToArray

SpecBoardArray == InitBoardArray /\ [][NextBoardArray]_vars

---------------------------------------------------------------------------
(* Properties of the frame codec (checked under Spec).                     *)

\* No location of the session holds a zero byte.
NulFree(s) ==
    \A i \in 1..Len(s.tables) :
       \A j \in 1..Len(s.tables[i].location) : s.tables[i].location[j] # 0

\* The sessions the wire format can carry: counts fit, locations NUL-free.
Representable(s) == CountsFit(s) /\ NulFree(s)

\* The field each byte of the session's encoding belongs to.
Layout == layout_of(writes(session))

RECURSIVE SumSeq(_)
\* The sum of a sequence of numbers (by halves).
SumSeq(ns) ==
    IF Len(ns) = 0 THEN 0
    ELSE IF Len(ns) = 1 THEN ns[1]
    ELSE LET h == Len(ns) \div 2
         IN  SumSeq(SubSeq(ns, 1, h)) + SumSeq(SubSeq(ns, h + 1, Len(ns)))

\* The documented widths of the records.
hand_len(h) == 1 + 4 + 1 + 1 + 2 * Len(h.hole_cards) + 1 + 5 * Len(h.actions) + 8 + 4

event_len(e) ==
    CASE e.type = "Hand" -> hand_len(e)
      [] e.type = "StackUpdate" -> 6
      [] e.type = "SeatUpdate" -> IF e.player = <<>> THEN 3 ELSE 11

table_len(t) ==
    4 + Len(t.location) + 1 + 1 + 1 + 8 * Len(t.initial_context) + 4
      + SumSeq([j \in 1..Len(t.events) |-> event_len(t.events[j])])

session_len(s) == 10 + SumSeq([i \in 1..Len(s.tables) |-> table_len(s.tables[i])])

\* The number of bytes documented to precede table i, and event j of table i.
table_off(s, i) == 10 + SumSeq([k \in 1..(i - 1) |-> table_len(s.tables[k])])

event_off(s, i, j) ==
    LET t == s.tables[i]
    IN  table_off(s, i) + 4 + Len(t.location) + 3 + 8 * Len(t.initial_context) + 4
          + SumSeq([k \in 1..(j - 1) |-> event_len(t.events[k])])

\* n as four little-endian bytes, for a length n.
le4(n) == <<n % 256, (n \div 256) % 256, (n \div 65536) % 256, (n \div 16777216) % 256>>

\* The little-endian bytes of a u32 <<hi, lo>> and of a u64 of four limbs.
le_u32(w) == <<w[2] % 256, w[2] \div 256, w[1] % 256, w[1] \div 256>>

le_u64(w) == le_u32(<<w[3], w[4]>>) \o le_u32(<<w[1], w[2]>>)

\* The documented bytes of one event record.
hand_bytes(h) ==
    <<0>> \o le_u32(h.id) \o <<h.button_position, Len(h.hole_cards) % 256>>
    \o Cat(h.hole_cards)
    \o <<Len(h.actions) % 256>>
    \o Cat([k \in 1..Len(h.actions) |->
              <<h.actions[k].player_and_action>> \o le_u32(h.actions[k].bet_amount)])
    \o le_u64(h.timestamp) \o le_u32(h.board)

event_bytes(e) ==
    CASE e.type = "Hand" -> hand_bytes(e)
      [] e.type = "StackUpdate" -> <<1, e.seat>> \o le_u32(e.stack)
      [] e.type = "SeatUpdate" ->
            IF e.player = <<>> THEN <<2, e.seat, 0>>
            ELSE <<2, e.seat, 1>> \o le_u32(e.player[1].id) \o le_u32(e.player[1].stack)

\* The documented bytes of a table record up to its events.
table_head_bytes(t) ==
    le_u32(t.id) \o t.location \o <<0, t.table_size, Len(t.initial_context) % 256>>
    \o Cat([k \in 1..Len(t.initial_context) |->
              le_u32(t.initial_context[k].id) \o le_u32(t.initial_context[k].stack)])
    \o le4(Len(t.events))

\* Slot i (0..4) of a packed board word <<hi, lo>>: bits 6i .. 6i+5.
board_slot(w, i) ==
    CASE i = 0 -> w[2] % 64
      [] i = 1 -> (w[2] \div 64) % 64
      [] i = 2 -> (w[2] \div 4096) + 16 * (w[1] % 4)
      [] i = 3 -> (w[1] \div 4) % 64
      [] i = 4 -> (w[1] \div 256) % 64

\* Some hole-card byte or some board slot of the session is above 53.
HasInvalidCard(s) ==
    \E i \in 1..Len(s.tables) :
       \E j \in 1..Len(s.tables[i].events) :
          LET e == s.tables[i].events[j]
          IN  /\ e.type = "Hand"
              /\ \/ \E k \in 1..Len(e.hole_cards) :
                       e.hole_cards[k][1] > 53 \/ e.hole_cards[k][2] > 53
                 \/ \E k \in 0..4 : board_slot(e.board, k) > 53

\* C1, as claimed: for every session whose counts fit their wire fields,
\* reading the written bytes succeeds and returns a session equal to the
\* original in every field.
C1_RoundTrip_AsClaimed ==
    (pc = "done" /\ how.kind = "intact" /\ CountsFit(session))
        => (result.ok /\ result.v = <<session>>)

\* C1, amended: for every session whose counts fit their wire fields and whose
\* locations hold no zero byte, reading the written bytes succeeds and returns
\* a session equal to the original in every field.
C1_RoundTrip ==
    (pc = "done" /\ how.kind = "intact" /\ Representable(session))
        => (result.ok /\ result.v = <<session>>)

C1_Witness ==
    /\ pc = "done" /\ how.kind = "intact" /\ Representable(session)
    /\ Len(session.tables) = 1
    /\ Len(session.tables[1].events) = 2
    /\ session.tables[1].events[1].type = "Hand"
    /\ session.tables[1].events[1].actions # <<>>
    /\ session.tables[1].events[2].type = "SeatUpdate"
    /\ session.tables[1].events[2].player # <<>>
    /\ result.ok /\ result.v = <<session>>

\* C2, as claimed: reading any proper prefix of any written stream fails with
\* UnexpectedEof.
C2_Truncation_AsClaimed ==
    (pc = "done" /\ how.kind = "truncated")
        => (~result.ok /\ result.kind = "UnexpectedEof")

\* C2, amended: reading any proper prefix of the stream written for a session
\* whose counts fit their wire fields and whose locations hold no zero byte
\* fails with UnexpectedEof, and returns no session.
C2_Truncation ==
    (pc = "done" /\ how.kind = "truncated" /\ Representable(session))
        => (~result.ok /\ result.kind = "UnexpectedEof" /\ result.v = <<>>)

C2_Witness ==
    /\ pc = "done" /\ how.kind = "truncated" /\ Representable(session)
    /\ Len(session.tables) = 2
    /\ how.at \in 1..(Len(Layout) - 1)
    /\ Layout[how.at] = "stack" /\ Layout[how.at + 1] = "table_id"
    /\ result.kind = "UnexpectedEof"

\* C3: a written stream with one of its first 4 bytes changed fails with
\* "Invalid magic number", and the cursor stands at 4: nothing after the
\* magic was read.
C3_MagicCorruption ==
    (pc = "done" /\ how.kind = "corrupted" /\ how.at \in 1..4)
        => result = Invalid("Invalid magic number", 4)

C3_Witness ==
    /\ pc = "done" /\ how.kind = "corrupted" /\ how.at = 4
    /\ Len(session.tables) > 0
    /\ result.msg = "Invalid magic number"

\* C4, as claimed: a stream that is well-formed except for a hole-card byte
\* above 53 or a board slot above 53 is rejected.
C4_InvalidCardRejected_AsClaimed ==
    (/\ pc = "done" /\ Representable(session)
     /\ \/ how.kind = "intact" /\ HasInvalidCard(session)
        \/ how.kind = "corrupted" /\ how.val = 255
              /\ Layout[how.at] \in {"hole", "board"})
        => (~result.ok /\ result.v = <<>>)

\* C4, amended: read_from_file checks no card tag.  A stream that is
\* well-formed except for a hole-card byte above 53 or a board slot above 53
\* (and likewise with any other byte value there) is read successfully, and the
\* session returned carries those bytes unchanged: writing it gives the stream
\* back.
C4_InvalidCardAccepted ==
    (/\ pc = "done" /\ Representable(session)
     /\ \/ how.kind = "intact" /\ HasInvalidCard(session)
        \/ how.kind = "corrupted" /\ Layout[how.at] \in {"hole", "board"})
        => (/\ result.ok
            /\ result.pos = Len(input)
            /\ bytes_of(writes(result.v[1])) = input)

C4_Witness ==
    /\ pc = "done" /\ how.kind = "corrupted" /\ how.val = 255
    /\ Representable(session)
    /\ Layout[how.at] = "hole"
    /\ result.ok
    /\ \E k \in 1..Len(result.v[1].tables[1].events[1].hole_cards) :
          result.v[1].tables[1].events[1].hole_cards[k][1] = 255

\* C5: every stream that starts with the magic and has a fifth byte other
\* than 0 fails with "Unsupported version", whatever follows, and the cursor
\* stands at 5: nothing after the version byte was read.
C5_UnsupportedVersion ==
    (/\ pc = "done" /\ Len(input) >= 5
     /\ SubSeq(input, 1, 4) = MAGIC_NUMBER /\ input[5] # 0)
        => result = Invalid("Unsupported version", 5)

C5_Witness ==
    /\ pc = "done" /\ how.kind = "raw"
    /\ Len(input) = 7 /\ input[5] = 1 /\ input[6] = 0
    /\ result.msg = "Unsupported version"

\* C6: when the byte at the start of an event record is changed to a value
\* other than 0, 1, 2, the read fails with "Invalid event type" right after
\* that byte and returns no session, however many tables and events precede.
C6_InvalidEventTag ==
    (/\ pc = "done" /\ how.kind = "corrupted" /\ Representable(session)
     /\ Layout[how.at] = "tag" /\ how.val \notin {0, 1, 2})
        => result = Invalid("Invalid event type", how.at)

C6_Witness ==
    /\ pc = "done" /\ how.kind = "corrupted" /\ Representable(session)
    /\ Layout[how.at] = "tag" /\ how.val = 3
    /\ Len(session.tables) = 2
    /\ \E q \in 1..(how.at - 1) : Layout[q] = "tag"
    /\ result.msg = "Invalid event type"

\* C7: in a SeatUpdate record, presence byte 0 gives an absent player and the
\* record ends at that byte; presence byte 1 gives the player held by the next
\* 8 bytes; any other presence byte fails the whole read with "Invalid player
\* presence byte" and no session.
C7_PresenceFlag ==
    (pc = "done" /\ how.kind \in {"intact", "corrupted"} /\ Representable(session))
        => LET lay == Layout
           IN  \A p \in 1..Len(input) :
                 (lay[p] = "present" /\ (how.kind = "corrupted" => how.at >= p))
                    => LET r == read_seat_update(input, p - 2)
                       IN  CASE input[p] = 0 ->
                                  /\ r.ok /\ r.pos = p
                                  /\ r.v = SeatUpdate(input[p - 1], <<>>)
                             [] input[p] = 1 ->
                                  IF p + 8 <= Len(input)
                                  THEN /\ r.ok /\ r.pos = p + 8
                                       /\ r.v.seat = input[p - 1]
                                       /\ Len(r.v.player) = 1
                                       /\ to_le_bytes(r.v.player[1].id) = take(input, p, 4)
                                       /\ to_le_bytes(r.v.player[1].stack)
                                             = take(input, p + 4, 4)
                                  ELSE r.kind = "UnexpectedEof"
                             [] OTHER ->
                                  /\ r = Invalid("Invalid player presence byte", p)
                                  /\ (how.kind = "corrupted" /\ how.at = p) => result = r

C7_Witness ==
    /\ pc = "done" /\ how.kind = "corrupted" /\ Representable(session)
    /\ Layout[how.at] = "present" /\ how.val = 2
    /\ result = Invalid("Invalid player presence byte", how.at)

\* C8: when the writer accepts every write, write_to_file returns Ok after
\* issuing all its writes, for every session (also one whose vector outgrows
\* its count field); an error write_to_file returns is the writer's.
C8_EncodingTotal ==
    pc = "written"
        => /\ failAt = 0 => (wres.ok /\ wres.kind = "Ok"
                              /\ wres.calls = Len(writes(session)))
           /\ ~wres.ok => (failAt > 0 /\ wres.kind = "WriteError")

C8_Witness ==
    /\ pc = "written" /\ failAt = 0
    /\ ~CountsFit(session)
    /\ wres.ok

---------------------------------------------------------------------------
(* Properties of Action::new (checked under SpecAction).                   *)

\* C9: Action::new fails exactly when cents >= 2^30 (2^30 - 1 = <<16383,
\* 65535>> succeeds, 2^30 = <<16384, 0>> fails); the error is
\* CentsExceedsRange with the rejected value; a value that is accepted is
\* stored as it is, neither clamped nor masked.
C9_ActionBounds ==
    (pc = "returned" /\ sc_in.fn = "Action::new")
        => LET c == sc_in.cents
               big == (c[1] * 16384) + (c[2] \div 4) >= 268435456
           IN  /\ sc_out.ok <=> ~big
               /\ ~sc_out.ok => (sc_out.err = "CentsExceedsRange" /\ sc_out.arg = c)
               /\ sc_out.ok => (Action_cents(sc_out.value) = c
                                 /\ Action_action_type(sc_out.value) = sc_in.at)
               /\ c = <<16383, 65535>> => sc_out.ok
               /\ c = <<16384, 0>> => ~sc_out.ok

C9_Witness ==
    /\ pc = "returned" /\ sc_in.fn = "Action::new"
    /\ sc_in.cents = <<16384, 0>>
    /\ ~sc_out.ok /\ sc_out.arg = <<16384, 0>>

---------------------------------------------------------------------------
(* Properties of Version::new (checked under SpecVersion).                 *)

\* C10: Version::new fails exactly when major >= 16 or minor >= 16; on
\* success major() and minor() return the arguments; on failure the error is
\* the major one with its value when major >= 16, else the minor one with its
\* value.
C10_VersionBounds ==
    (pc = "returned" /\ sc_in.fn = "Version::new")
        => LET ma == sc_in.major
               mi == sc_in.minor
           IN  /\ sc_out.ok <=> (ma < 16 /\ mi < 16)
               /\ sc_out.ok => (Version_major(sc_out.value) = ma
                                 /\ Version_minor(sc_out.value) = mi)
               /\ ma >= 16 => (sc_out.err = "MajorVersionExceedsRange"
                                /\ sc_out.arg = ma)
               /\ (ma < 16 /\ mi >= 16) => (sc_out.err = "MinorVersionExceedsRange"
                                             /\ sc_out.arg = mi)

C10_Witness ==
    /\ pc = "returned" /\ sc_in.fn = "Version::new"
    /\ sc_in.major = 16 /\ sc_in.minor = 16
    /\ sc_out.err = "MajorVersionExceedsRange" /\ sc_out.arg = 16

---------------------------------------------------------------------------
(* Properties of Card::from_u8 (checked under SpecCard).                   *)

\* C11: for every 8-bit tag t, Card::from_u8(t) fails exactly when t >= 54;
\* for t <= 53 it returns a card whose to_u8() is t (52 is Unknown, 53 is
\* Xx).
C11_CardBounds ==
    /\ (pc = "returned" /\ sc_in.fn = "Card::from_u8")
          => /\ sc_out.ok <=> sc_in.value < 54
             /\ sc_in.value = 52 => (sc_out.ok /\ sc_out.value = Unknown)
             /\ sc_in.value = 53 => (sc_out.ok /\ sc_out.value = Xx)
    /\ (pc = "converted" /\ sc_in.fn = "Card::to_u8")
          => (sc_in.tag <= 53 /\ sc_out.value = sc_in.tag)

C11_Witness ==
    /\ pc = "returned" /\ sc_in.fn = "Card::from_u8"
    /\ sc_in.value = 54 /\ ~sc_out.ok /\ sc_out.err = "InvalidData"

---------------------------------------------------------------------------
(* Properties of Board (checked under SpecBoard).                          *)

\* C12: Board::set_card fails exactly when index >= 5, and a failed
\* set_card leaves the board as it was; Board::get_card on a board built
\* through new, from_array and set_card fails exactly when index >= 5.
C12_SlotBounds ==
    /\ (pc = "live" /\ sc_in.fn = "Board::set_card")
          => /\ sc_out.ok <=> sc_in.index < 5
             /\ ~sc_out.ok => brd = sc_in.before
    /\ (pc = "live" /\ sc_in.fn = "Board::get_card")
          => (sc_out.ok <=> sc_in.index < 5)

C12_Witness ==
    /\ pc = "live" /\ sc_in.fn = "Board::set_card"
    /\ sc_in.index = 5 /\ ~sc_out.ok
    /\ sc_in.card # Xx /\ brd = sc_in.before /\ brd = <<13783, 23925>>

\* C13: the board Board::new returns reports Xx (53) for each of its five
\* slots, through get_card(0 .. 4) and through to_array.
C13_SentinelBoard ==
    (pc = "live" /\ sc_in.fn = "Board::new")
        => /\ \A i \in 0..4 : Board_get_card(brd, i) = [ok |-> TRUE, value |-> 53]
           /\ Board_to_array(brd) = [ok |-> TRUE, value |-> <<53, 53, 53, 53, 53>>]
           /\ \A i \in 0..4 : board_slot(brd, i) = 53

C13_Witness ==
    /\ pc = "live" /\ sc_in.fn = "Board::to_array"
    /\ sc_in.before = <<13783, 23925>>
    /\ sc_out = [ok |-> TRUE, value |-> <<53, 53, 53, 53, 53>>]

\* C14: after a successful set_card(i, c), get_card(i) is c and the other
\* four slots are as they were, whatever set_card calls came before (also
\* when slot i already held a card).
C14_SingleSlotUpdate ==
    (pc = "live" /\ sc_in.fn = "Board::set_card" /\ sc_out.ok)
        => /\ Board_get_card(brd, sc_in.index) = [ok |-> TRUE, value |-> sc_in.card]
           /\ board_slot(brd, sc_in.index) = sc_in.card
           /\ \A j \in 0..4 :
                 j # sc_in.index => board_slot(brd, j) = board_slot(sc_in.before, j)
           /\ \A j \in 0..4 :
                 j # sc_in.index
                    => Board_get_card(brd, j) = Board_get_card(sc_in.before, j)

\* Slot 2 (the one that straddles the two 16-bit halves) overwritten: 42 over
\* 21, its neighbours holding other cards.
C14_Witness ==
    /\ pc = "live" /\ sc_in.fn = "Board::set_card" /\ sc_out.ok
    /\ sc_in.index = 2 /\ sc_in.card = 42
    /\ board_slot(sc_in.before, 2) = 21
    /\ board_slot(brd, 1) = 42 /\ board_slot(brd, 3) = 21

\* C19: for every array of five cards, Board::from_array(cards).to_array()
\* succeeds and returns the same cards in the same order.
C19_ArrayRoundTrip ==
    /\ (pc = "live" /\ sc_in.fn = "Board::from_array")
          => /\ Board_to_array(brd) = [ok |-> TRUE, value |-> sc_in.cards]
             /\ \A i \in 0..4 : board_slot(brd, i) = sc_in.cards[i + 1]
    /\ (pc = "live" /\ sc_in.fn = "Board::to_array")
          => /\ sc_out.ok
             /\ \A i \in 0..4 : sc_out.value[i + 1] = board_slot(sc_in.before, i)

\* [7d, 7h, Unknown, 7c, 7d]: five cards that read differently backwards.
C19_Witness ==
    /\ pc = "live" /\ sc_in.fn = "Board::to_array"
    /\ sc_out = [ok |-> TRUE, value |-> <<25, 26, 52, 24, 25>>]

\* C20: for every four-byte input Board::deserialize succeeds exactly when
\* each of the five 6-bit groups (bits 6i .. 6i+5) is at most 53; when it
\* fails no Board is returned; for every board built by new, from_array and
\* set_card, serialize then deserialize returns an equal board.
C20_DecodeValidation ==
    /\ (pc \in {"decoded", "failed"} /\ Len(sc_in.bytes) = 4)
          => LET b == sc_in.bytes
                 group(i) == ((b[1] + 256 * b[2] + 65536 * b[3]) \div 2^(6 * i)
                                + (IF i = 4 THEN b[4] ELSE 0)) % 64
             IN  /\ sc_out.ok <=> \A i \in 0..4 : group(i) <= 53
                 /\ pc = "decoded" <=> sc_out.ok
                 /\ ~sc_out.ok => brd = NoBoard
                 /\ sc_out.ok => to_le_bytes(brd) = b
    /\ pc = "reread" => (sc_out.ok /\ sc_out.board = brd)

\* A word whose only group above 53 is the last one.
C20_Witness ==
    /\ pc = "failed" /\ Len(sc_in.bytes) = 4
    /\ board_slot(from_le_bytes(sc_in.bytes), 4) = 54
    /\ \A i \in 0..3 : board_slot(from_le_bytes(sc_in.bytes), i) = 53
    /\ ~sc_out.ok /\ brd = NoBoard

---------------------------------------------------------------------------
(* Properties of Action::serialize and Action::deserialize (checked under  *)
(* SpecAction).                                                            *)

\* C15: applied to the four little-endian bytes of the 32-bit word computed
\* as (4 << 30) | 500, Action::deserialize returns the error
\* InvalidU8AsActionType(4).
C15_InvalidKindRejected_AsClaimed ==
    (pc = "returned" /\ sc_in.fn = "Action::deserialize"
        /\ sc_in.bytes = InvalidValueBytes)
        => (~sc_out.ok /\ sc_out.err = "InvalidU8AsActionType" /\ sc_out.arg = 4)

C18_ActionRoundTrip ==
    /\ (pc = "returned" /\ sc_in.fn = "Action::new" /\ sc_in.cents[1] < 16384)
          => /\ sc_out.ok
             /\ Action_action_type(sc_out.value) = sc_in.at
             /\ Action_cents(sc_out.value) = sc_in.cents
             /\ sc_out.value = <<sc_in.at * 16384 + sc_in.cents[1], sc_in.cents[2]>>
    /\ (pc = "serialized" /\ sc_in.fn = "Action::serialize")
          => (sc_out.ok /\ Len(sc_out.bytes) = 4)
    /\ (pc = "reread" /\ sc_in.fn = "Action::deserialize")
          => /\ sc_out.ok
             /\ sc_out.value = sc_in.self
             /\ Action_action_type(sc_out.value) = sc_in.at
             /\ Action_cents(sc_out.value) = sc_in.cents

\* Raise of 2^30 - 1 cents, written and read back.
C18_Witness ==
    /\ pc = "reread" /\ sc_in.at = 3 /\ sc_in.cents = <<16383, 65535>>
    /\ sc_in.bytes = <<255, 255, 255, 255>>
    /\ sc_out.ok /\ sc_out.value = <<65535, 65535>>

---------------------------------------------------------------------------
(* Properties of Version::deserialize (checked under SpecVersion).         *)

\* C17: for every byte b, Version::deserialize succeeds with major = b >> 4
\* and minor = b & 15, and serialize of the result writes b back; it fails
\* only on an empty input.
C17_VersionDecodeTotal ==
    /\ (pc = "returned" /\ sc_in.fn = "Version::deserialize")
          => /\ sc_out.ok <=> Len(sc_in.bytes) >= 1
             /\ ~sc_out.ok => sc_out.err = "UnexpectedEof"
             /\ sc_out.ok
                   => /\ Version_major(sc_out.value) = sc_in.bytes[1] \div 16
                      /\ Version_minor(sc_out.value) = sc_in.bytes[1] % 16
                      /\ 16 * Version_major(sc_out.value) + Version_minor(sc_out.value)
                            = sc_in.bytes[1]
    /\ (pc = "serialized" /\ sc_in.fn = "Version::serialize")
          => (sc_out.ok /\ sc_out.bytes = <<sc_in.bytes[1]>>)

\* The byte 0xF1 read as version 15.1 and written back.
C17_Witness ==
    /\ pc = "serialized" /\ sc_in.fn = "Version::serialize"
    /\ sc_in.bytes = <<241>>
    /\ Version_major(sc_in.self) = 15 /\ Version_minor(sc_in.self) = 1
    /\ sc_out.bytes = <<241>>

---------------------------------------------------------------------------
(* Properties of the encoder (checked under SpecEncode).                   *)

\* C21: for a session with n tables write_to_file returns Ok and writes the
\* table count byte as n mod 256 while writing all n table records; the
\* initial-player count, the hole-card-pair count and the action count are
\* narrowed the same way (mod 256) and the event count is written mod 2^32;
\* no value is rejected for being too large.
C21_TruncatingCasts ==
    (pc = "written" /\ failAt = 0)
        => LET s == session
               b == wres.bytes
           IN  /\ wres.ok
               /\ Len(b) = session_len(s)
               /\ b[10] = Len(s.tables) % 256
               /\ \A i \in 1..Len(s.tables) :
                     LET t == s.tables[i]
                         np == table_off(s, i) + 4 + Len(t.location) + 3
                     IN  /\ b[np] = Len(t.initial_context) % 256
                         /\ SubSeq(b, np + 8 * Len(t.initial_context) + 1,
                                      np + 8 * Len(t.initial_context) + 4)
                               = le4(Len(t.events))
                         /\ \A j \in 1..Len(t.events) :
                               LET e == t.events[j]
                                   nh == event_off(s, i, j) + 7
                               IN  e.type = "Hand"
                                     => /\ b[nh] = Len(e.hole_cards) % 256
                                        /\ b[nh + 2 * Len(e.hole_cards) + 1]
                                              = Len(e.actions) % 256

\* 257 tables: the count byte is 1 and all 257 records are written.
C21_Witness ==
    /\ pc = "written" /\ failAt = 0 /\ wres.ok
    /\ Len(session.tables) = 257
    /\ wres.bytes[10] = 1
    /\ Len(wres.bytes) = 10 + 257 * 11

\* C23: write_to_file emits 'H', 'E', 'I', 'R', the version byte 0, the
\* session id (4 bytes, little-endian) and the table count; per table its id,
\* the location bytes, one 0, the table size, the player count, 8 bytes per
\* player and the 4-byte event count; per Hand the tag 0 and 4 + 1 + 1 + 2 per
\* hole-card pair + 1 + 5 per action + 8 + 4 bytes; per StackUpdate 6 bytes
\* with the tag 1; per SeatUpdate 3 bytes with the tag 2 when absent and 11
\* when present.  The length of the output is the sum of these widths: 10
\* bytes for a session without tables, 88 for the documented scenario.
C23_ExactLayout ==
    (pc = "written" /\ failAt = 0)
        => LET s == session
               b == wres.bytes
           IN  /\ wres.ok
               /\ Len(b) = session_len(s)
               /\ SubSeq(b, 1, 10)
                     = <<72, 69, 73, 82, 0>> \o le_u32(s.session_id)
                          \o <<Len(s.tables) % 256>>
               /\ \A i \in 1..Len(s.tables) :
                     LET t == s.tables[i]
                         off == table_off(s, i)
                         head == table_head_bytes(t)
                     IN  /\ SubSeq(b, off + 1, off + Len(head)) = head
                         /\ \A j \in 1..Len(t.events) :
                               LET eo == event_off(s, i, j)
                               IN  SubSeq(b, eo + 1, eo + event_len(t.events[j]))
                                      = event_bytes(t.events[j])
               /\ s.tables = <<>> => Len(b) = 10
               /\ s = FixtureSession => Len(b) = 88

C23_Witness ==
    /\ pc = "written" /\ failAt = 0 /\ wres.ok
    /\ session = FixtureSession
    /\ Len(wres.bytes) = 88
    /\ SubSeq(wres.bytes, 11, 22) = <<1, 0, 0, 0, 67, 97, 115, 105, 110, 111, 49, 0>>

\* C25: when the writer fails on the k-th write that write_to_file issues,
\* write_to_file returns that error, the k-th write is the last one it issues
\* (nothing after it, no second attempt), and the bytes the writer has taken
\* are those of the first k - 1 writes, a prefix of the full encoding.
C25_WriteErrorsPropagate ==
    (pc = "written" /\ failAt > 0)
        => LET ws == writes(session)
               full == write_to_file(session, 0).bytes
               n == Len(wres.bytes)
           IN  /\ ~wres.ok
               /\ wres.kind = "WriteError"
               /\ wres.calls = failAt
               /\ n = SumSeq([i \in 1..(failAt - 1) |-> Len(ws[i].b)])
               /\ n < Len(full)
               /\ wres.bytes = SubSeq(full, 1, n)

\* The write of the table count rejected: the nine bytes before it are out.
C25_Witness ==
    /\ pc = "written" /\ failAt = 4 /\ ~wres.ok
    /\ wres.calls = 4
    /\ session.tables # <<>>
    /\ wres.bytes = <<72, 69, 73, 82, 0, 1, 0, 0, 0>>

---------------------------------------------------------------------------
(* Further properties of the frame codec (checked under Spec).             *)

\* C22: a SeatUpdate without a player is written as tag, seat and the flag 0
\* (2 body bytes), one with a player as tag, seat, the flag 1, id and stack
\* (10 body bytes), also when id and stack are 0; read back, each is the
\* variant that was written: an absent player never becomes a zero-valued
\* player, nor the reverse.
C22_ExplicitAbsence ==
    /\ (pc \in {"written", "ready", "done"} /\ wres.ok)
          => \A i \in 1..Len(session.tables) :
                \A j \in 1..Len(session.tables[i].events) :
                   LET e == session.tables[i].events[j]
                       off == event_off(session, i, j)
                       b == wres.bytes
                   IN  (e.type = "SeatUpdate" /\ CountsFit(session))
                          => /\ b[off + 1] = 2
                             /\ b[off + 2] = e.seat
                             /\ e.player = <<>>
                                   => (b[off + 3] = 0 /\ event_len(e) = 1 + 2)
                             /\ e.player # <<>>
                                   => /\ b[off + 3] = 1
                                      /\ event_len(e) = 1 + 10
                                      /\ SubSeq(b, off + 4, off + 11)
                                            = to_le_bytes(e.player[1].id)
                                                 \o to_le_bytes(e.player[1].stack)
    /\ (pc = "done" /\ how.kind = "intact" /\ Representable(session))
          => /\ result.ok
             /\ \A i \in 1..Len(session.tables) :
                   \A j \in 1..Len(session.tables[i].events) :
                      LET e == session.tables[i].events[j]
                      IN  e.type = "SeatUpdate"
                             => result.v[1].tables[i].events[j].player = e.player

\* An absent player and a present player of id 0 and stack 0 on the same
\* seat, written one after the other and read back.
C22_Witness ==
    /\ pc = "done" /\ how.kind = "intact" /\ result.ok
    /\ Len(session.tables) = 1
    /\ session.tables[1].events
          = <<SeatUpdate(2, <<>>), SeatUpdate(2, <<Player(U32(0), U32(0))>>)>>
    /\ Len(input) = 22 + 3 + 11
    /\ result.v[1].tables[1].events[1].player = <<>>
    /\ result.v[1].tables[1].events[2].player = <<Player(U32(0), U32(0))>>

\* C27: for a well-formed encoded stream B and any bytes T, read_from_file
\* on B followed by T succeeds, returns the session it returns on B alone and
\* consumes the len(B) bytes of B, leaving T unread: the end of the input is
\* not required after the last table.
C27_TrailingBytesIgnored ==
    (pc = "done" /\ how.kind = "extended")
        => LET alone == read_from_file(wres.bytes)
           IN  /\ SubSeq(input, 1, how.at) = wres.bytes /\ Len(input) = how.at + how.val
               /\ alone.ok => result = alone
               /\ Representable(session)
                     => /\ result.ok
                        /\ result.v = <<session>>
                        /\ result.pos = Len(wres.bytes)
                        /\ result.pos < Len(input)

\* A table with a player and an event, followed by the bytes 0 and 255.
C27_Witness ==
    /\ pc = "done" /\ how.kind = "extended" /\ result.ok
    /\ Len(session.tables) = 1 /\ Len(session.tables[1].events) = 2
    /\ SubSeq(input, how.at + 1, Len(input)) = <<0, 255>>
    /\ result.v = <<session>>
    /\ result.pos = Len(input) - 2

\* C28: a location in a session that read_from_file returns holds no zero
\* byte (the decoder ends the string at the first one); so writing a session
\* and reading it back returns the locations that were written exactly when
\* they hold no zero byte, the empty location included; the encoder writes
\* the location bytes as they are, followed by one 0 byte.
C28_LocationTerminator ==
    /\ (pc = "done" /\ result.ok) => NulFree(result.v[1])
    /\ (pc = "done" /\ how.kind = "intact" /\ CountsFit(session))
          => LET same == /\ result.ok
                         /\ Len(result.v[1].tables) = Len(session.tables)
                         /\ \A i \in 1..Len(session.tables) :
                               result.v[1].tables[i].location
                                  = session.tables[i].location
             IN  same <=> NulFree(session)
    /\ (pc = "written" /\ failAt = 0)
          => /\ Len(wres.bytes) = session_len(session)
             /\ \A i \in 1..Len(session.tables) :
                   LET t == session.tables[i]
                       off == table_off(session, i) + 4
                       n == Len(t.location)
                   IN  /\ SubSeq(wres.bytes, off + 1, off + n) = t.location
                       /\ wres.bytes[off + n + 1] = 0
                       /\ wres.bytes[off + n + 2] = t.table_size
                       /\ (n = 0 /\ t.initial_context = <<>> /\ t.events = <<>>)
                             => table_len(t) = 4 + 1 + 1 + 1 + 4

\* The location <<0, 'C'>> written and read back as the empty location.
C28_Witness ==
    /\ pc = "done" /\ how.kind = "intact"
    /\ Len(session.tables) = 1
    /\ session.tables[1].location = <<0, 67>>
    /\ result.ok
    /\ result.v[1].tables[1].location = <<>>

\* C24: read_from_file makes one forward pass and stops at the first failure:
\* it consumes a prefix of the input; what it returns is decided by that
\* prefix alone (the same input cut after the last byte read gives the same
\* result, and so does the input with any unread byte changed); a failed
\* check or a short read ends the call with the error and no session.
C24_SingleForwardPass ==
    pc = "done"
        => LET p == result.pos
               last == IF Len(input) < p + 64 THEN Len(input) ELSE p + 64
           IN  /\ p >= 0 /\ p <= Len(input)
               /\ ~result.ok => result.v = <<>>
               /\ result.ok => Len(result.v) = 1
               /\ read_from_file(SubSeq(input, 1, p)) = result
               /\ \A q \in (p + 1)..last :
                     \A v \in {0, 1, 255} :
                        read_from_file([input EXCEPT ![q] = v]) = result

\* A wrong event tag with four bytes behind it that are never read.
C24_Witness ==
    /\ pc = "done" /\ how.kind = "corrupted"
    /\ result.kind = "InvalidData" /\ result.msg = "Invalid event type"
    /\ result.pos = how.at
    /\ Len(input) = result.pos + 5
    /\ result.v = <<>>

---------------------------------------------------------------------------
(* Termination of the decoder (checked under SpecDecode).                  *)

\* What read_from_file returned is Ok or one of its two errors, after at most
\* len(input) bytes; a stream cut inside a location ends in a short read at
\* the end of the input; a count of players, hole-card pairs or actions that
\* asks for more bytes than are left ends in a short read, and a count of
\* tables or events that does so ends in an error.
DecodeBounded ==
    pc = "done"
        => /\ result.kind \in {"Ok", "UnexpectedEof", "InvalidData"}
           /\ result.ok <=> result.kind = "Ok"
           /\ result.pos >= 0 /\ result.pos <= Len(input)
           /\ (how.kind \in {"truncated", "corrupted"} /\ Representable(session))
                 => LET lay == Layout
                        left == Len(input) - how.at
                        f == IF how.at \in 1..Len(lay) THEN lay[how.at] ELSE "none"
                    IN  /\ (how.kind = "truncated" /\ how.at < Len(lay)
                              /\ lay[how.at + 1] \in {"location", "nul"})
                              => (result.kind = "UnexpectedEof" /\ result.pos = Len(input))
                        /\ (how.kind = "corrupted"
                              /\ \/ f = "num_players" /\ 8 * how.val > left
                                 \/ f = "num_hole" /\ 2 * how.val > left
                                 \/ f = "num_actions" /\ 5 * how.val > left)
                              => result.kind = "UnexpectedEof"
                        /\ (how.kind = "corrupted"
                              /\ \/ f = "num_tables" /\ 11 * how.val > left
                                 \/ f = "num_events" /\ 3 * how.val > left)
                              => ~result.ok

---------------------------------------------------------------------------
(* Invariants of Board (checked under SpecBoard).                          *)

\* C29: every Board made by Board::new or Board::from_array and then passed
\* through set_card calls, successful or failed, and every Board returned by
\* a successful Board::deserialize, holds a tag <= 53 in each of its five
\* slots, so get_card(i) for i < 5 and to_array succeed on it.
C29_BoardValid ==
    pc \in {"live", "decoded"}
        => /\ \A i \in 0..4 :
                 /\ board_slot(brd, i) <= 53
                 /\ Board_get_card(brd, i) = [ok |-> TRUE, value |-> board_slot(brd, i)]
           /\ Board_to_array(brd) =
                 [ok |-> TRUE, value |-> [i \in 1..5 |-> board_slot(brd, i - 1)]]

\* A set_card on index 100 has just failed on a board that holds cards other
\* than Xx: the board is as it was, and get_card and to_array succeed on it.
C29_Witness ==
    /\ pc = "live"
    /\ sc_in.fn = "Board::set_card"
    /\ sc_in.index = 100
    /\ ~sc_out.ok
    /\ brd = sc_in.before
    /\ brd # Board_new
    /\ Board_to_array(brd).ok
    /\ \A i \in 0..4 : Board_get_card(brd, i).ok

\* C30: a Board obtained through new, from_array, set_card or deserialize has
\* its two reserved bits (30 and 31) at 0, and it is equal (derived PartialEq:
\* equality of the 32-bit words) to a Board obtained through from_array
\* exactly when the two hold the same five cards.
C30_EqualityMatchesSlots_AsClaimed ==
    pc \in {"live", "decoded"}
        => LET cards == Board_to_array(brd).value
               other == Board_from_array(cards)
           IN  /\ shr_u32(brd, 30) = U32(0)
               /\ (brd = other) <=> (Board_to_array(other).value = cards)

=============================================================================
